---- MODULE Spec2Model ----
(***************************************************************************)
(* Depth, whitespace and split-marker engine of sqlfmt (sqlfmt/line.py):   *)
(* Node.from_token / calculate_depth / whitespace / capitalize and         *)
(* Line.append_token / append_newline / from_nodes.                        *)
(***************************************************************************)
EXTENDS Integers, Sequences, FiniteSets, TLC

VARIABLES
    line,      \* the Line under construction (record of its dataclass fields)
    query,     \* the chain of Nodes created so far, in previous_node order
    cursor,    \* source column at which the scanner emits its next token
    result,    \* the last operation called, its argument and what it raised
    rebuilt,   \* the Lines returned by the last Line.from_nodes split, if any
    call,      \* arguments of a direct call of a Node classmethod
    ret,       \* what that call returned or raised, once it has run
    heap       \* the list objects behind the open_brackets fields, as they
               \* are now, and which of them each Node and Line refers to

vars == <<line, query, cursor, result, rebuilt, call, ret, heap>>

----------------------------------------------------------------------------
(* Bounds of the model *)

MaxTokens == 4      \* tokens fed to Lines in one run
MaxInherited == 3   \* largest |inherited_depth| handed to calculate_depth
MaxStack == 3       \* longest bracket stack handed to calculate_depth

----------------------------------------------------------------------------
(* Optional[...] values *)

None == <<>>
Some(x) == <<x>>

\* a local variable: the value is computed once and named in what follows
Bind(value, Rest(_)) == Rest(value)

(* sqlfmt.token: Token and the scanner's policy function *)

Token(type, text, col) ==
    [type |-> type, token |-> text,
     spos |-> <<0, col>>, epos |-> <<0, col + Len(text)>>]

\* the (classification, text) pairs the scanner emits in this model
ScannerTokens ==
    { <<"TOP_KEYWORD", "SELECT">>,
      <<"BRACKET_OPEN", "(">>, <<"BRACKET_OPEN", "[">>,
      <<"BRACKET_CLOSE", ")">>, <<"BRACKET_CLOSE", "]">>,
      <<"STATEMENT_START", "CASE">>, <<"STATEMENT_END", "END">>,
      <<"NAME", "Foo">>, <<"COMMA", ",">>, <<"COMMENT", "--c">> }

split_after(token_type) ==
    token_type \in {"BRACKET_OPEN", "TOP_KEYWORD", "COMMA", "STATEMENT_START"}

\* str.lower() on one character: a cased letter of the ASCII range becomes its
\* lower-case letter, any other character of that range is kept
lower_char(c) ==
    CASE c = "A" -> "a" [] c = "B" -> "b" [] c = "C" -> "c" [] c = "D" -> "d"
      [] c = "E" -> "e" [] c = "F" -> "f" [] c = "G" -> "g" [] c = "H" -> "h"
      [] c = "I" -> "i" [] c = "J" -> "j" [] c = "K" -> "k" [] c = "L" -> "l"
      [] c = "M" -> "m" [] c = "N" -> "n" [] c = "O" -> "o" [] c = "P" -> "p"
      [] c = "Q" -> "q" [] c = "R" -> "r" [] c = "S" -> "s" [] c = "T" -> "t"
      [] c = "U" -> "u" [] c = "V" -> "v" [] c = "W" -> "w" [] c = "X" -> "x"
      [] c = "Y" -> "y" [] c = "Z" -> "z"
      [] OTHER -> c

RECURSIVE lower(_)
\* str.lower(): every character of the text lowercased
lower(s) ==
    IF s = "" THEN "" ELSE lower_char(SubSeq(s, 1, 1)) \o lower(Tail(s))

RECURSIVE Repeat(_, _)
\* Python's str * int: the empty string when the count is not positive
Repeat(s, n) == IF n <= 0 THEN "" ELSE s \o Repeat(s, n - 1)

----------------------------------------------------------------------------
(* Node.calculate_depth *)

Top(s) == s[Len(s)]
Pop(s) == SubSeq(s, 1, Len(s) - 1)

matches == ("{" :> "}") @@ ("(" :> ")") @@ ("[" :> "]")

\* variant: the error reports where the closer ends, not where it starts
UnmatchedCloser_end_position(token) ==
    [kind |-> "ValueError", token |-> token.token, spos |-> token.epos,
     last |-> None]

\* ValueError raised for a closer found before any bracket was opened
UnmatchedCloser(token) ==
    [kind |-> "ValueError", token |-> token.token, spos |-> token.spos,
     last |-> None]

\* AssertionError raised when the closer does not match the popped entry
MismatchedBracketPair(token, last_bracket) ==
    [kind |-> "AssertionError", token |-> token.token, spos |-> token.spos,
     last |-> Some([token |-> last_bracket.token, spos |-> last_bracket.spos])]

Changes(before, after, open_brackets) ==
    [raised |-> None, change_before |-> before, change_after |-> after,
     open_brackets |-> open_brackets]

Raises(error) ==
    [raised |-> Some(error), change_before |-> 0, change_after |-> 0,
     open_brackets |-> <<>>]

\* variant: a keyword that follows a keyword dedents but leaves it on the stack
depth_top_keyword_keeps_previous(token, open_brackets) ==
    LET follows_keyword ==
            /\ open_brackets # <<>>
            /\ Top(open_brackets).type = "TOP_KEYWORD"
    IN  Changes(IF follows_keyword THEN -1 ELSE 0, 1,
                Append(open_brackets, token))

\* variant: a keyword that follows a keyword replaces it without dedenting
depth_top_keyword_no_dedent(token, open_brackets) ==
    LET follows_keyword ==
            /\ open_brackets # <<>>
            /\ Top(open_brackets).type = "TOP_KEYWORD"
    IN  Changes(0, 1,
                Append(IF follows_keyword THEN Pop(open_brackets)
                       ELSE open_brackets,
                       token))

depth_top_keyword(token, open_brackets) ==
    LET maybe_last_bracket ==
            IF open_brackets # <<>> THEN Some(Top(open_brackets)) ELSE None
        popped ==
            IF open_brackets # <<>> THEN Pop(open_brackets) ELSE open_brackets
        follows_keyword ==
            /\ maybe_last_bracket # None
            /\ maybe_last_bracket[1].type = "TOP_KEYWORD"
        kept ==
            IF follows_keyword THEN popped
            ELSE IF maybe_last_bracket # None
                 THEN Append(popped, maybe_last_bracket[1])
                 ELSE popped
    IN  Changes(IF follows_keyword THEN -1 ELSE 0, 1, Append(kept, token))

\* variant: an opening bracket is pushed without indenting what follows
depth_bracket_open_no_indent(token, open_brackets) ==
    Changes(0, 0, Append(open_brackets, token))

depth_bracket_open(token, open_brackets) ==
    Changes(0, 1, Append(open_brackets, token))

\* variant: the assert accepts any opening bracket, whatever its character
check_matches_any_opener(token, last_bracket, change_before, open_brackets) ==
    IF last_bracket.type = "BRACKET_OPEN"
    THEN Changes(change_before, 0, open_brackets)
    ELSE Raises(MismatchedBracketPair(token, last_bracket))

\* the assert on the entry the closer is finally compared against
check_matches(token, last_bracket, change_before, open_brackets) ==
    IF /\ last_bracket.type = "BRACKET_OPEN"
       /\ matches[last_bracket.token] = token.token
    THEN Changes(change_before, 0, open_brackets)
    ELSE Raises(MismatchedBracketPair(token, last_bracket))

\* variant: the second pop, past a top keyword, does not dedent again
depth_bracket_close_one_dedent(token, open_brackets) ==
    IF open_brackets = <<>>
    THEN Raises(UnmatchedCloser(token))
    ELSE LET last_bracket == Top(open_brackets)
             rest == Pop(open_brackets)
         IN  IF last_bracket.type = "TOP_KEYWORD"
             THEN IF rest = <<>>
                  THEN Raises(UnmatchedCloser(token))
                  ELSE check_matches(token, Top(rest), -1, Pop(rest))
             ELSE check_matches(token, last_bracket, -1, rest)

\* variant: a closer that follows a top keyword pops the keyword only and
\* is compared against it
depth_bracket_close_single_pop(token, open_brackets) ==
    IF open_brackets = <<>>
    THEN Raises(UnmatchedCloser(token))
    ELSE check_matches(token, Top(open_brackets), -1, Pop(open_brackets))

depth_bracket_close(token, open_brackets) ==
    IF open_brackets = <<>>
    THEN Raises(UnmatchedCloser(token))
    ELSE LET last_bracket == Top(open_brackets)
             rest == Pop(open_brackets)
         IN  IF last_bracket.type = "TOP_KEYWORD"
             THEN IF rest = <<>>
                  THEN Raises(UnmatchedCloser(token))
                  ELSE check_matches(token, Top(rest), -2, Pop(rest))
             ELSE check_matches(token, last_bracket, -1, rest)

calculate_depth(token, inherited_depth, open_brackets) ==
    Bind(CASE token.type = "TOP_KEYWORD" ->
                  depth_top_keyword(token, open_brackets)
           [] token.type = "BRACKET_OPEN" ->
                  depth_bracket_open(token, open_brackets)
           [] token.type = "BRACKET_CLOSE" ->
                  depth_bracket_close(token, open_brackets)
           [] token.type = "STATEMENT_START" ->
                  Changes(0, 1, open_brackets)
           [] token.type = "STATEMENT_END" ->
                  Changes(-1, 0, open_brackets)
           [] OTHER -> Changes(0, 0, open_brackets),
         LAMBDA c :
             [raised |-> c.raised,
              depth |-> inherited_depth + c.change_before,
              change_in_depth |-> c.change_after,
              open_brackets |-> c.open_brackets])

----------------------------------------------------------------------------
(* Node.whitespace and Node.capitalize *)

NO_SPACE == ""
SPACE == " "
\* variant: two spaces per level
INDENT_two_spaces == Repeat(SPACE, 2)
INDENT == Repeat(SPACE, 4)

\* variant: the names "as" and "over" are recognised in lower case only
whitespace_case_sensitive(token, is_first_on_line, depth, previous_token) ==
    IF is_first_on_line THEN Repeat(INDENT, depth)
    ELSE IF token.type \in {"BRACKET_CLOSE", "DOUBLE_COLON", "COMMA", "DOT",
                            "NEWLINE"}
    THEN NO_SPACE
    ELSE IF /\ token.type \in {"QUOTED_NAME", "NAME"}
            /\ previous_token # None
            /\ previous_token[1].type = "DOT"
    THEN NO_SPACE
    ELSE IF /\ token.type = "BRACKET_OPEN"
            /\ previous_token # None
            /\ previous_token[1].type = "NAME"
            /\ previous_token[1].token \notin {"over", "as"}
    THEN NO_SPACE
    ELSE IF token.type = "BRACKET_OPEN" THEN SPACE
    ELSE IF /\ previous_token # None
            /\ previous_token[1].type \in {"BRACKET_OPEN", "DOUBLE_COLON"}
    THEN NO_SPACE
    ELSE SPACE

whitespace(token, is_first_on_line, depth, previous_token) ==
    IF is_first_on_line THEN Repeat(INDENT, depth)
    ELSE IF token.type \in {"BRACKET_CLOSE", "DOUBLE_COLON", "COMMA", "DOT",
                            "NEWLINE"}
    THEN NO_SPACE
    ELSE IF /\ token.type \in {"QUOTED_NAME", "NAME"}
            /\ previous_token # None
            /\ previous_token[1].type = "DOT"
    THEN NO_SPACE
    ELSE IF /\ token.type = "BRACKET_OPEN"
            /\ previous_token # None
            /\ previous_token[1].type = "NAME"
            /\ lower(previous_token[1].token) \notin {"over", "as"}
    THEN NO_SPACE
    ELSE IF token.type = "BRACKET_OPEN" THEN SPACE
    ELSE IF /\ previous_token # None
            /\ previous_token[1].type \in {"BRACKET_OPEN", "DOUBLE_COLON"}
    THEN NO_SPACE
    ELSE SPACE

capitalize(token) ==
    IF token.type \in {"TOP_KEYWORD", "NAME", "STATEMENT_START", "STATEMENT_END"}
    THEN lower(token.token)
    ELSE token.token

----------------------------------------------------------------------------
(* Node *)

Node(token, inherited_depth, prefix, value, depth, change_in_depth, open_brackets) ==
    [token |-> token, inherited_depth |-> inherited_depth, prefix |-> prefix,
     value |-> value, depth |-> depth, change_in_depth |-> change_in_depth,
     open_brackets |-> open_brackets]

\* Node.__len__, which also decides the truth value of a Node
NodeLen(node) == Len(node.prefix \o node.value)

\* "if previous_node:" on an Optional[Node]
Truthy(maybe_node) == maybe_node # None /\ NodeLen(maybe_node[1]) > 0

from_token(token, previous_node) ==
    LET inherited_depth ==
            IF Truthy(previous_node)
            THEN previous_node[1].depth + previous_node[1].change_in_depth
            ELSE 0
        inherited_brackets ==
            IF Truthy(previous_node) THEN previous_node[1].open_brackets
            ELSE <<>>
        is_first_on_line ==
            \/ previous_node = None
            \/ previous_node[1].token.type = "NEWLINE"
        previous_token ==
            IF is_first_on_line THEN None ELSE Some(previous_node[1].token)
    IN  Bind(calculate_depth(token, inherited_depth, inherited_brackets),
             LAMBDA d :
                 [raised |-> d.raised,
                  node |-> Node(token, inherited_depth,
                                whitespace(token, is_first_on_line, d.depth,
                                           previous_token),
                                capitalize(token), d.depth, d.change_in_depth,
                                d.open_brackets)])

----------------------------------------------------------------------------
(* Line *)

Line(previous_node, depth) ==
    [previous_node |-> previous_node, nodes |-> <<>>, depth |-> depth,
     change_in_depth |-> 0, open_brackets |-> <<>>, depth_split |-> None,
     first_comma |-> None]

\* variant: every indenting node moves the split, not only the first
next_depth_split_last_indent(l, token, node, change_in_depth, split_index) ==
    LET change_over_node ==
            node.depth - node.inherited_depth + node.change_in_depth
        after_comment ==
            IF token.type = "COMMENT" THEN Some(split_index)
            ELSE l.depth_split
    IN  IF change_in_depth < 0 /\ change_over_node < 0 /\ split_index > 0
        THEN Some(split_index)
        ELSE IF node.change_in_depth > 0
        THEN Some(split_index)
        ELSE after_comment

\* variant: a comment sets the split only when none is recorded yet
next_depth_split_comment_if_unset(l, token, node, change_in_depth, split_index) ==
    LET change_over_node ==
            node.depth - node.inherited_depth + node.change_in_depth
        after_comment ==
            IF token.type = "COMMENT" /\ l.depth_split = None
            THEN Some(split_index)
            ELSE l.depth_split
    IN  IF change_in_depth < 0 /\ change_over_node < 0 /\ split_index > 0
        THEN Some(split_index)
        ELSE IF after_comment = None /\ node.change_in_depth > 0
        THEN Some(split_index)
        ELSE after_comment

\* variant: a dedenting node sets the split only when none is recorded yet
next_depth_split_first_dedent(l, token, node, change_in_depth, split_index) ==
    LET change_over_node ==
            node.depth - node.inherited_depth + node.change_in_depth
        after_comment ==
            IF token.type = "COMMENT" THEN Some(split_index)
            ELSE l.depth_split
    IN  IF /\ change_in_depth < 0 /\ change_over_node < 0 /\ split_index > 0
           /\ after_comment = None
        THEN Some(split_index)
        ELSE IF after_comment = None /\ node.change_in_depth > 0
        THEN Some(split_index)
        ELSE after_comment

\* variant: the indenting rule looks at the node's whole swing, not at its
\* change_in_depth
next_depth_split_indent_by_swing(l, token, node, change_in_depth, split_index) ==
    LET change_over_node ==
            node.depth - node.inherited_depth + node.change_in_depth
        after_comment ==
            IF token.type = "COMMENT" THEN Some(split_index)
            ELSE l.depth_split
    IN  IF change_in_depth < 0 /\ change_over_node < 0 /\ split_index > 0
        THEN Some(split_index)
        ELSE IF after_comment = None /\ change_over_node > 0
        THEN Some(split_index)
        ELSE after_comment

\* depth_split after the three-way update of append_token
next_depth_split(l, token, node, change_in_depth, split_index) ==
    LET change_over_node ==
            node.depth - node.inherited_depth + node.change_in_depth
        after_comment ==
            IF token.type = "COMMENT" THEN Some(split_index)
            ELSE l.depth_split
    IN  IF change_in_depth < 0 /\ change_over_node < 0 /\ split_index > 0
        THEN Some(split_index)
        ELSE IF after_comment = None /\ node.change_in_depth > 0
        THEN Some(split_index)
        ELSE after_comment

\* variant: every top-level comma overwrites first_comma
next_first_comma_overwrites(l, token, node, open_brackets, split_index) ==
    IF /\ token.type = "COMMA"
       /\ node.open_brackets = open_brackets
    THEN Some(split_index)
    ELSE l.first_comma

\* first_comma after the update of append_token
next_first_comma(l, token, node, open_brackets, split_index) ==
    IF /\ token.type = "COMMA"
       /\ node.open_brackets = open_brackets
       /\ l.first_comma = None
    THEN Some(split_index)
    ELSE l.first_comma

\* variant: the line's stack follows the last node instead of staying the
\* first node's
appended_tracks_last_stack(l, token, node) ==
    LET depth == IF l.nodes = <<>> THEN node.depth ELSE l.depth
        change_in_depth ==
            IF l.nodes = <<>> THEN node.change_in_depth
            ELSE node.depth - l.depth + node.change_in_depth
        split_index ==
            Len(l.nodes) + (IF split_after(node.token.type) THEN 1 ELSE 0)
    IN  [previous_node |-> l.previous_node,
         nodes |-> Append(l.nodes, node),
         depth |-> depth,
         change_in_depth |-> change_in_depth,
         open_brackets |-> node.open_brackets,
         depth_split |->
             next_depth_split(l, token, node, change_in_depth, split_index),
         first_comma |->
             next_first_comma(l, token, node, node.open_brackets, split_index)]

\* variant: the line's depth change adds up the nodes' change_in_depth only
appended_sums_changes_after(l, token, node) ==
    LET depth == IF l.nodes = <<>> THEN node.depth ELSE l.depth
        change_in_depth == l.change_in_depth + node.change_in_depth
        open_brackets ==
            IF l.nodes = <<>> THEN node.open_brackets ELSE l.open_brackets
        split_index ==
            Len(l.nodes) + (IF split_after(node.token.type) THEN 1 ELSE 0)
    IN  [previous_node |-> l.previous_node,
         nodes |-> Append(l.nodes, node),
         depth |-> depth,
         change_in_depth |-> change_in_depth,
         open_brackets |-> open_brackets,
         depth_split |->
             next_depth_split(l, token, node, change_in_depth, split_index),
         first_comma |->
             next_first_comma(l, token, node, open_brackets, split_index)]

\* the fields of the Line once the node made from the token is appended
appended(l, token, node) ==
    LET depth == IF l.nodes = <<>> THEN node.depth ELSE l.depth
        change_in_depth ==
            IF l.nodes = <<>> THEN node.change_in_depth
            ELSE node.depth - l.depth + node.change_in_depth
        open_brackets ==
            IF l.nodes = <<>> THEN node.open_brackets ELSE l.open_brackets
        split_index ==
            Len(l.nodes) + (IF split_after(node.token.type) THEN 1 ELSE 0)
    IN  [previous_node |-> l.previous_node,
         nodes |-> Append(l.nodes, node),
         depth |-> depth,
         change_in_depth |-> change_in_depth,
         open_brackets |-> open_brackets,
         depth_split |->
             next_depth_split(l, token, node, change_in_depth, split_index),
         first_comma |->
             next_first_comma(l, token, node, open_brackets, split_index)]

\* variant: a raise of from_token is noted after the line was updated with
\* the node as far as it was computed
append_token_updates_before_raise(l, token) ==
    Bind(from_token(token, IF l.nodes # <<>> THEN Some(l.nodes[Len(l.nodes)])
                           ELSE l.previous_node),
         LAMBDA r :
             [raised |-> r.raised, line |-> appended(l, token, r.node)])

append_token(l, token) ==
    Bind(from_token(token, IF l.nodes # <<>> THEN Some(l.nodes[Len(l.nodes)])
                           ELSE l.previous_node),
         LAMBDA r :
             IF r.raised # None
             THEN [raised |-> r.raised, line |-> l]
             ELSE [raised |-> None, line |-> appended(l, token, r.node)])

\* variant: an empty line places its newline at zero, predecessor or not
newline_token_ignores_predecessor(l) ==
    LET previous_token ==
            IF l.nodes # <<>> THEN Some(l.nodes[Len(l.nodes)].token)
            ELSE None
    IN  IF previous_token # None
        THEN [type |-> "NEWLINE", token |-> "\n",
              spos |-> <<previous_token[1].epos[1],
                         previous_token[1].epos[2] + 1>>,
              epos |-> <<previous_token[1].epos[1],
                         previous_token[1].epos[2] + 2>>]
        ELSE [type |-> "NEWLINE", token |-> "\n",
              spos |-> <<0, 0>>, epos |-> <<0, 1>>]

\* the NEWLINE token that append_newline constructs
newline_token(l) ==
    LET previous_token ==
            IF l.nodes # <<>> THEN Some(l.nodes[Len(l.nodes)].token)
            ELSE IF Truthy(l.previous_node)
                 THEN Some(l.previous_node[1].token)
                 ELSE None
    IN  IF previous_token # None
        THEN [type |-> "NEWLINE", token |-> "\n",
              spos |-> <<previous_token[1].epos[1],
                         previous_token[1].epos[2] + 1>>,
              epos |-> <<previous_token[1].epos[1],
                         previous_token[1].epos[2] + 2>>]
        ELSE [type |-> "NEWLINE", token |-> "\n",
              spos |-> <<0, 0>>, epos |-> <<0, 1>>]

append_newline(l) == append_token(l, newline_token(l))

RECURSIVE replay(_, _)
\* the loop of from_nodes: append each node's token, stop at the first raise
replay(l, nodes) ==
    IF nodes = <<>> THEN [raised |-> None, line |-> l]
    ELSE Bind(append_token(l, Head(nodes).token),
              LAMBDA r :
                  IF r.raised # None THEN r ELSE replay(r.line, Tail(nodes)))

\* variant: the new Line is created without its predecessor node
from_nodes_without_predecessor(previous_node, nodes) ==
    replay(Line(None,
                IF Truthy(previous_node)
                THEN previous_node[1].depth + previous_node[1].change_in_depth
                ELSE 0),
           nodes)

from_nodes(previous_node, nodes) ==
    replay(Line(previous_node,
                IF Truthy(previous_node)
                THEN previous_node[1].depth + previous_node[1].change_in_depth
                ELSE 0),
           nodes)

----------------------------------------------------------------------------
(* The list objects behind open_brackets.  The records above hold what each *)
(* field was when it was assigned; a Python list is an object that later    *)
(* calls can change in place, so the objects and their current contents are *)
(* kept apart: cells[id] is the content of list object id.                  *)

\* variant: the predecessor's list itself is handed on, no copy is made
list_copy_aliased(cells, id) == [cells |-> cells, id |-> id]

\* previous_node.open_brackets.copy(): a new list object of the same content
list_copy(cells, id) == [cells |-> Append(cells, cells[id]), id |-> Len(cells) + 1]

\* open_brackets = []: a new, empty list object
list_new(cells) == [cells |-> Append(cells, <<>>), id |-> Len(cells) + 1]

\* what calculate_depth has left of the list it was given when it raises:
\* the entries it popped before the raise are gone
left_at_raise(token, open_brackets) ==
    IF token.type # "BRACKET_CLOSE" \/ open_brackets = <<>> THEN open_brackets
    ELSE IF Top(open_brackets).type # "TOP_KEYWORD" THEN Pop(open_brackets)
    ELSE IF Pop(open_brackets) = <<>> THEN <<>>
    ELSE Pop(Pop(open_brackets))

\* the list objects after Node.from_token: the list made for the new node is
\* changed in place by calculate_depth and becomes the node's open_brackets;
\* when calculate_depth raises, nothing refers to a list made for the call
from_token_cells(cells, token, previous_node, previous_id) ==
    Bind(IF Truthy(previous_node) THEN list_copy(cells, previous_id)
         ELSE list_new(cells),
         LAMBDA made :
             Bind(calculate_depth(token, 0, made.cells[made.id]),
                  LAMBDA d :
                      IF d.raised = None
                      THEN [raised |-> None, id |-> made.id,
                            cells |-> [made.cells EXCEPT
                                           ![made.id] = d.open_brackets]]
                      ELSE [raised |-> d.raised, id |-> 0,
                            cells |-> SubSeq([made.cells EXCEPT
                                                  ![made.id] =
                                                      left_at_raise(
                                                          token,
                                                          made.cells[made.id])],
                                             1, Len(cells))]))

RECURSIVE replay_cells(_, _, _, _, _)
\* the list objects after the loop of from_nodes has made the given nodes,
\* one from_token after the other, and the list of each new node
replay_cells(cells, previous_node, previous_id, nodes, ids) ==
    IF nodes = <<>> THEN [cells |-> cells, ids |-> ids]
    ELSE Bind(from_token_cells(cells, Head(nodes).token, previous_node,
                               previous_id),
              LAMBDA r :
                  IF r.raised # None THEN [cells |-> r.cells, ids |-> ids]
                  ELSE replay_cells(r.cells, Some(Head(nodes)), r.id,
                                    Tail(nodes), Append(ids, r.id)))

\* no list object yet, no Node, and a Line that has its own empty list (0)
NoLists == [cells |-> <<>>, node |-> <<>>, line |-> 0, rebuilt |-> None]

----------------------------------------------------------------------------
(* The formatter's pass over one query *)

Outcome(op, token, raised) == [op |-> op, token |-> token, raised |-> raised]

LastNode(l) == l.nodes[Len(l.nodes)]

Init ==
    /\ line = Line(None, 0)
    /\ query = <<>>
    /\ cursor = 0
    /\ result = Outcome("init", None, None)
    /\ rebuilt = None
    /\ call = None
    /\ ret = None
    /\ heap = NoLists

\* the node append_token hands to Node.from_token as the previous node
Predecessor(l) ==
    IF l.nodes # <<>> THEN Some(LastNode(l)) ELSE l.previous_node

\* the list object of that node's open_brackets: the predecessor, when there
\* is one, is the last node of the chain
PredecessorList == IF query = <<>> THEN 0 ELSE heap.node[Len(query)]

\* what a call that appends one token leaves behind: the line as
\* append_token left it and, unless the call raised, the new node in the chain
AfterAppend(op, token, r) ==
    /\ result' = Outcome(op, Some(token), r.raised)
    /\ line' = r.line
    /\ IF r.raised = None
       THEN /\ query' = Append(query, LastNode(r.line))
            /\ cursor' = token.epos[2]
       ELSE UNCHANGED <<query, cursor>>
    /\ \E c \in {from_token_cells(heap.cells, token, Predecessor(line),
                                   PredecessorList)} :
           heap' = IF c.raised = None
                   THEN [heap EXCEPT
                             !.cells = c.cells,
                             !.node = Append(heap.node, c.id),
                             !.line = IF line.nodes = <<>> THEN c.id
                                      ELSE heap.line]
                   ELSE [heap EXCEPT !.cells = c.cells]
    /\ UNCHANGED <<rebuilt, call, ret>>

\* line.append_token(token) with the next token of the scanner
AppendToken(kind) ==
    /\ call = None
    /\ rebuilt = None
    /\ Len(query) < MaxTokens
    /\ \E token \in {Token(kind[1], kind[2], cursor)} :
           \E r \in {append_token(line, token)} :
               AfterAppend("append_token", token, r)

\* line.append_newline()
AppendNewline ==
    /\ call = None
    /\ rebuilt = None
    /\ Len(query) < MaxTokens
    /\ \E r \in {append_newline(line)} :
           AfterAppend("append_newline", newline_token(line), r)

\* the caller closes the line at its newline and starts the next Line
NewLine ==
    /\ call = None
    /\ rebuilt = None
    /\ line.nodes # <<>>
    /\ LastNode(line).token.type = "NEWLINE"
    /\ line' = Line(Some(LastNode(line)), 0)
    /\ result' = Outcome("Line", None, None)
    /\ rebuilt' = None
    /\ heap' = [heap EXCEPT !.line = 0]
    /\ UNCHANGED <<query, cursor, call, ret>>

\* once the forward pass over the tokens has ended, the reflow pass cuts the
\* line at k and rebuilds both parts with Line.from_nodes, which returns new
\* Lines and leaves the line as it is
\* Line.from_nodes for the part before the cut and then for the part after
\* it, whose predecessor is the last node of the rebuilt head
split_at(l, k) ==
    Bind(from_nodes(l.previous_node, SubSeq(l.nodes, 1, k)),
         LAMBDA head :
             IF head.raised # None
             THEN [raised |-> head.raised, head |-> head.line,
                   tail |-> head.line]
             ELSE Bind(from_nodes(IF head.line.nodes # <<>>
                                  THEN Some(LastNode(head.line))
                                  ELSE l.previous_node,
                                  SubSeq(l.nodes, k + 1, Len(l.nodes))),
                       LAMBDA tail :
                           [raised |-> tail.raised, head |-> head.line,
                            tail |-> tail.line]))

\* the list object of the open_brackets of the line's previous_node
PreviousNodeList ==
    IF line.previous_node = None THEN 0
    ELSE heap.node[Len(query) - Len(line.nodes)]

Split(k) ==
    /\ call = None
    /\ rebuilt = None
    /\ \E s \in {split_at(line, k)} :
        /\ result' = Outcome("from_nodes", None, s.raised)
        /\ rebuilt' = IF s.raised = None
                      THEN Some([k |-> k, head |-> s.head, tail |-> s.tail])
                      ELSE None
        /\ \E c \in {replay_cells(heap.cells, line.previous_node,
                                   PreviousNodeList,
                                   s.head.nodes \o s.tail.nodes, <<>>)} :
               heap' = [heap EXCEPT
                            !.cells = c.cells,
                            !.rebuilt =
                                IF s.raised = None
                                THEN Some([nodes |-> c.ids,
                                           head |-> IF k > 0 THEN c.ids[1]
                                                    ELSE 0,
                                           tail |-> IF k < Len(c.ids)
                                                    THEN c.ids[k + 1]
                                                    ELSE 0])
                                ELSE None]
    /\ UNCHANGED <<line, query, cursor, call, ret>>

Next ==
    \/ \E kind \in ScannerTokens : AppendToken(kind)
    \/ AppendNewline
    \/ NewLine
    \/ \E k \in 0..Len(line.nodes) : Split(k)

Spec == Init /\ [][Next]_vars

----------------------------------------------------------------------------
(* Node.calculate_depth called directly on arbitrary arguments *)

\* classifications and texts of the token handed to the classmethod
AnyTokens ==
    ScannerTokens \cup
    { <<"BRACKET_OPEN", "{">>, <<"BRACKET_CLOSE", "}">>,
      <<"NAME", "OVER">>, <<"NAME", "As">>, <<"NAME", "AS">>,
      <<"NAME", "oVeR">>, <<"NAME", "Overt">>, <<"TOP_KEYWORD", "WHERE">>,
      <<"QUOTED_NAME", "\"Bar\"">>,
      <<"DOT", ".">>, <<"DOUBLE_COLON", "::">>, <<"NEWLINE", "\n">>,
      <<"OPERATOR", "+">> }

\* the entries a bracket stack can hold
StackTokens ==
    { <<"TOP_KEYWORD", "SELECT">>, <<"BRACKET_OPEN", "(">>,
      <<"BRACKET_OPEN", "[">>, <<"BRACKET_OPEN", "{">> }

\* bracket stacks of n entries, the i-th entry scanned at column 2 * i
Stacks(n) ==
    { [i \in 1..n |-> Token(f[i][1], f[i][2], 2 * i)] :
          f \in [1..n -> StackTokens] }

DepthCalls ==
    { [fn |-> "calculate_depth", token |-> Token(kind[1], kind[2], 20),
       inherited_depth |-> d, open_brackets |-> stack] :
          kind \in AnyTokens, d \in (-MaxInherited)..MaxInherited,
          stack \in UNION { Stacks(n) : n \in 0..MaxStack } }

InitCalc ==
    /\ line = Line(None, 0)
    /\ query = <<>>
    /\ cursor = 0
    /\ result = Outcome("init", None, None)
    /\ rebuilt = None
    /\ call \in { Some(c) : c \in DepthCalls }
    /\ ret = None
    /\ heap = NoLists

CalculateDepth ==
    /\ call # None
    /\ call[1].fn = "calculate_depth"
    /\ ret = None
    /\ ret' = Some(calculate_depth(call[1].token, call[1].inherited_depth,
                                   call[1].open_brackets))
    /\ UNCHANGED <<line, query, cursor, result, rebuilt, call, heap>>

NextCalc == CalculateDepth

SpecCalc == InitCalc /\ [][NextCalc]_vars

----------------------------------------------------------------------------
(* The table of depth changes per token classification *)

TopIsKeyword(stack) == stack # <<>> /\ Top(stack).type = "TOP_KEYWORD"

TableBefore(type, stack) ==
    CASE type = "TOP_KEYWORD" -> IF TopIsKeyword(stack) THEN -1 ELSE 0
      [] type = "BRACKET_CLOSE" -> IF TopIsKeyword(stack) THEN -2 ELSE -1
      [] type = "STATEMENT_END" -> -1
      [] OTHER -> 0

TableAfter(type) ==
    IF type \in {"TOP_KEYWORD", "BRACKET_OPEN", "STATEMENT_START"} THEN 1 ELSE 0

Returned == call # None /\ ret # None /\ ret[1].raised = None

(* C1: whenever calculate_depth returns, depth is inherited_depth plus the   *)
(* change_before of the token's classification and change_in_depth is its   *)
(* change_after, as tabulated: TOP_KEYWORD (-1 on a TOP_KEYWORD top else 0, *)
(* +1), BRACKET_OPEN (0, +1), BRACKET_CLOSE (-1, or -2 on a TOP_KEYWORD     *)
(* top, 0), STATEMENT_START (0, +1), STATEMENT_END (-1, 0), others (0, 0).  *)

C1_DepthTable ==
    Returned =>
        /\ ret[1].depth = call[1].inherited_depth
                            + TableBefore(call[1].token.type,
                                          call[1].open_brackets)
        /\ ret[1].change_in_depth = TableAfter(call[1].token.type)

\* a closer returned after popping a top keyword and its opening bracket
C1_Witness ==
    /\ Returned
    /\ call[1].token.type = "BRACKET_CLOSE"
    /\ TopIsKeyword(call[1].open_brackets)
    /\ ret[1].depth = call[1].inherited_depth - 2

----------------------------------------------------------------------------
(* Vocabulary of the properties of a query and its Lines *)

\* 0-based position, in a Python list, of the i-th element of a sequence
Index(i) == i - 1

Last(seq) == seq[Len(seq)]

\* the Lines in existence: the one being built and those a split returned
Lines ==
    {line} \cup (IF rebuilt = None THEN {}
                 ELSE {rebuilt[1].head, rebuilt[1].tail})

TokensOf(nodes) == [i \in 1..Len(nodes) |-> nodes[i].token]

CloserOf(c) == CASE c = "(" -> ")" [] c = "[" -> "]" [] c = "{" -> "}"

RECURSIVE Unclosed(_, _)
\* the opening brackets a token sequence leaves unclosed, innermost last;
\* <<"mismatch">> once a closer does not close the innermost open bracket
Unclosed(tokens, open) ==
    IF tokens = <<>> THEN open
    ELSE LET t == Head(tokens)
         IN  IF t.type = "BRACKET_OPEN"
             THEN Unclosed(Tail(tokens), Append(open, t.token))
             ELSE IF t.type = "BRACKET_CLOSE"
             THEN IF open # <<>> /\ CloserOf(Last(open)) = t.token
                  THEN Unclosed(Tail(tokens), SubSeq(open, 1, Len(open) - 1))
                  ELSE <<"mismatch">>
             ELSE Unclosed(Tail(tokens), open)

WellBracketed(tokens) == Unclosed(tokens, <<>>) = <<>>

\* the TOP_KEYWORD tokens of a well-bracketed sequence that lie outside all
\* brackets, in order
TopLevelKeywords(tokens) ==
    SelectSeq([i \in 1..Len(tokens) |->
                   [token |-> tokens[i],
                    outside |-> Unclosed(SubSeq(tokens, 1, i), <<>>) = <<>>]],
              LAMBDA e : e.outside /\ e.token.type = "TOP_KEYWORD")

----------------------------------------------------------------------------
(* C2 as claimed: after a well-bracketed token sequence processed from the  *)
(* start of a query, the bracket stack of the last node is empty.           *)

C2_FinalStackEmpty ==
    (query # <<>> /\ WellBracketed(TokensOf(query)))
        => Last(query).open_brackets = <<>>

(* C2 amended: after a well-bracketed token sequence processed from the     *)
(* start of a query, the bracket stack of the last node holds no opening    *)
(* bracket: it is empty when no TOP_KEYWORD lies outside all brackets, and  *)
(* otherwise holds exactly the last TOP_KEYWORD token outside all brackets. *)

C2_FinalStackOnlyKeyword ==
    (query # <<>> /\ WellBracketed(TokensOf(query)))
        => LET keywords == TopLevelKeywords(TokensOf(query))
           IN  Last(query).open_brackets =
                   IF keywords = <<>> THEN <<>>
                   ELSE <<Last(keywords).token>>

\* brackets closed over a keyword, leaving only an outer keyword on the stack
C2_Witness ==
    /\ Len(query) >= 4
    /\ WellBracketed(TokensOf(query))
    /\ Last(query).token.type = "BRACKET_CLOSE"
    /\ TopIsKeyword(query[Len(query) - 1].open_brackets)
    /\ Len(Last(query).open_brackets) = 1

----------------------------------------------------------------------------
(* The last append_token call and the context it ran in *)

LastAppend == result.op = "append_token"

\* the predecessor node the last append_token call used
PredecessorAtCall ==
    IF result.raised # None
    THEN IF line.nodes # <<>> THEN Some(Last(line.nodes))
         ELSE line.previous_node
    ELSE IF Len(line.nodes) >= 2 THEN Some(line.nodes[Len(line.nodes) - 1])
         ELSE line.previous_node

InheritedBrackets ==
    IF PredecessorAtCall = None THEN <<>>
    ELSE PredecessorAtCall[1].open_brackets

ClosedBracket == LastAppend /\ result.token[1].type = "BRACKET_CLOSE"

(* C3: a BRACKET_CLOSE appended when the inherited bracket stack is empty   *)
(* raises the unmatched-closer ValueError, not the mismatched-pair          *)
(* AssertionError, and the error carries the closer's character and its     *)
(* source start position.                                                   *)

C3_UnmatchedCloser ==
    (ClosedBracket /\ InheritedBrackets = <<>>)
        => /\ result.raised # None
           /\ result.raised[1].kind = "ValueError"
           /\ result.raised[1].token = result.token[1].token
           /\ result.raised[1].spos = result.token[1].spos

\* a closer met on an empty stack after other tokens, away from column 0
C3_Witness ==
    /\ ClosedBracket
    /\ InheritedBrackets = <<>>
    /\ query # <<>>
    /\ result.raised # None
    /\ result.raised[1].spos = <<0, cursor>>
    /\ cursor > 0

----------------------------------------------------------------------------
\* the stack entry a closer is compared against: the top, or the entry below
\* a TOP_KEYWORD top
MatchingEntry(stack) ==
    IF TopIsKeyword(stack) THEN stack[Len(stack) - 1] ELSE Top(stack)

HasMatchingEntry(stack) ==
    stack # <<>> /\ (TopIsKeyword(stack) => Len(stack) >= 2)

(* C4: a BRACKET_CLOSE whose matching stack entry (the top, or the entry    *)
(* below a TOP_KEYWORD top) is a BRACKET_OPEN of another bracket character  *)
(* raises the mismatched-pair AssertionError, whose kind differs from the   *)
(* unmatched-closer error's.                                                *)

C4_MismatchedPair ==
    (/\ ClosedBracket
     /\ HasMatchingEntry(InheritedBrackets)
     /\ MatchingEntry(InheritedBrackets).type = "BRACKET_OPEN"
     /\ CloserOf(MatchingEntry(InheritedBrackets).token) # result.token[1].token)
        => /\ result.raised # None
           /\ result.raised[1].kind = "AssertionError"
           /\ result.raised[1].kind # UnmatchedCloser(result.token[1]).kind

\* the sequence "(", a name, "]"
C4_Witness ==
    /\ ClosedBracket
    /\ result.token[1].token = "]"
    /\ Len(query) = 2
    /\ query[1].token.token = "("
    /\ query[2].token.type = "NAME"
    /\ result.raised # None
    /\ result.raised[1].kind = "AssertionError"

----------------------------------------------------------------------------
\* position in the query of the node made from a token
NodeOf(token) == CHOOSE j \in 1..Len(query) : query[j].token = token

\* i-th node is a top keyword processed on top of another top keyword
ReplacesKeyword(i) ==
    /\ i \in 2..Len(query)
    /\ query[i].token.type = "TOP_KEYWORD"
    /\ TopIsKeyword(query[i - 1].open_brackets)

Replaced(i) == NodeOf(Top(query[i - 1].open_brackets))

CountBetween(j, i, type) ==
    Cardinality({n \in (j + 1)..(i - 1) : query[n].token.type = type})

(* C5 as claimed: a TOP_KEYWORD processed while the top of the inherited    *)
(* stack is a TOP_KEYWORD gets the depth of the keyword it replaces and     *)
(* replaces it on the stack, leaving the stack length unchanged.            *)

C5_SameDepthAsReplaced ==
    \A i \in 1..Len(query) :
        ReplacesKeyword(i) =>
            /\ query[i].depth = query[Replaced(i)].depth
            /\ Len(query[i].open_brackets) = Len(query[i - 1].open_brackets)
            /\ Top(query[i].open_brackets) = query[i].token

(* C5 amended: a TOP_KEYWORD processed while the top of the inherited stack *)
(* is a TOP_KEYWORD gets the depth of the keyword it replaces plus the      *)
(* number of STATEMENT_START tokens minus the number of STATEMENT_END       *)
(* tokens between the two (the same depth when those balance), and replaces *)
(* it on the stack, leaving the stack length unchanged.                     *)

C5_DepthOfReplacedPlusStatements ==
    \A i \in 1..Len(query) :
        ReplacesKeyword(i) =>
            /\ query[i].depth =
                   query[Replaced(i)].depth
                   + CountBetween(Replaced(i), i, "STATEMENT_START")
                   - CountBetween(Replaced(i), i, "STATEMENT_END")
            /\ Len(query[i].open_brackets) = Len(query[i - 1].open_brackets)
            /\ Top(query[i].open_brackets) = query[i].token

\* a keyword replacing another inside a bracket, with a name in between
C5_Witness ==
    \E i \in 1..Len(query) :
        /\ ReplacesKeyword(i)
        /\ Replaced(i) < i - 1
        /\ Len(query[i].open_brackets) = 2
        /\ query[i].depth = query[Replaced(i)].depth

----------------------------------------------------------------------------
RECURSIVE Spaces(_)
\* a string of n space characters, empty when n is not positive
Spaces(n) == IF n <= 0 THEN "" ELSE " " \o Spaces(n - 1)

(* C6 as claimed: in every Line, built by append_token or rebuilt by        *)
(* from_nodes with an external predecessor, the node at index 0 has a       *)
(* prefix of exactly 4 x depth spaces.                                      *)

C6_FirstNodeIndented ==
    \A l \in Lines :
        l.nodes # <<>> => l.nodes[1].prefix = Spaces(4 * l.nodes[1].depth)

StartsAfterNewline(l) ==
    \/ l.previous_node = None
    \/ l.previous_node[1].token.type = "NEWLINE"

(* C6 amended: in every Line whose predecessor node is absent or is a       *)
(* NEWLINE node, built by append_token or rebuilt by from_nodes, the node   *)
(* at index 0 has a prefix of exactly 4 x depth spaces (no space when the   *)
(* depth is not positive).                                                  *)

C6_FirstNodeIndentedAfterNewline ==
    \A l \in Lines :
        (l.nodes # <<>> /\ StartsAfterNewline(l))
            => l.nodes[1].prefix = Spaces(4 * l.nodes[1].depth)

\* a tail rebuilt after a newline node at depth 2: eight spaces
C6_Witness ==
    /\ rebuilt # None
    /\ rebuilt[1].tail.nodes # <<>>
    /\ rebuilt[1].tail.previous_node # None
    /\ rebuilt[1].tail.previous_node[1].token.type = "NEWLINE"
    /\ rebuilt[1].tail.nodes[1].depth = 2
    /\ rebuilt[1].tail.nodes[1].prefix = "        "

----------------------------------------------------------------------------
\* positions of the commas of a Line whose stack is the Line's starting stack
TopLevelCommas(l) ==
    { i \in 1..Len(l.nodes) :
          /\ l.nodes[i].token.type = "COMMA"
          /\ l.nodes[i].open_brackets = l.nodes[1].open_brackets }

Min(S) == CHOOSE i \in S : \A j \in S : i <= j

(* C7 as claimed: first_comma, when set, is the index in the line's nodes   *)
(* of the first COMMA node whose stack equals the line's starting stack,    *)
(* whatever was appended after it.                                          *)

C7_FirstCommaIsCommaIndex ==
    \A l \in Lines :
        l.first_comma # None =>
            /\ TopLevelCommas(l) # {}
            /\ l.first_comma[1] = Index(Min(TopLevelCommas(l)))

(* C7 amended: first_comma, when set, is the candidate split index of the   *)
(* first COMMA node whose stack equals the line's starting stack, that is   *)
(* the index immediately after that comma since a split falls after a       *)
(* comma, whatever was appended after it.                                   *)

C7_FirstCommaIsIndexAfterComma ==
    \A l \in Lines :
        l.first_comma # None =>
            /\ TopLevelCommas(l) # {}
            /\ l.first_comma[1] =
                   Index(Min(TopLevelCommas(l)))
                   + (IF split_after("COMMA") THEN 1 ELSE 0)

\* "select a, b" with a second comma appended after it
C7_Witness ==
    /\ Len(line.nodes) = 4
    /\ line.nodes[1].token.type = "TOP_KEYWORD"
    /\ line.nodes[2].token.type = "NAME"
    /\ line.nodes[3].token.type = "COMMA"
    /\ line.nodes[4].token.type = "COMMA"
    /\ line.first_comma = Some(3)

----------------------------------------------------------------------------
\* the line "select foo(" ended by a newline
IsSelectFooLine ==
    /\ line.previous_node = None
    /\ [i \in 1..Len(line.nodes) |-> line.nodes[i].value]
           = <<"select", "foo", "(", "\n">>
    /\ line.nodes[1].token.type = "TOP_KEYWORD"
    /\ line.nodes[2].token.type = "NAME"
    /\ line.nodes[3].token.type = "BRACKET_OPEN"
    /\ line.nodes[4].token.type = "NEWLINE"

(* C8 as claimed: the line select, foo, (, newline ends with depth_split at *)
(* the index immediately after the open-paren node.                         *)

C8_SplitAfterParen == IsSelectFooLine => line.depth_split = Some(Index(3) + 1)

(* C8 amended: the line select, foo, (, newline ends with depth_split at    *)
(* the index immediately after the select node, the first node of the line  *)
(* that increases depth.                                                    *)

C8_SplitAfterSelect == IsSelectFooLine => line.depth_split = Some(Index(1) + 1)

C8_Witness == IsSelectFooLine /\ line.depth_split # None

----------------------------------------------------------------------------
\* the fields of a node that a rebuilt node has to reproduce
Formatted(node) ==
    [token |-> node.token, depth |-> node.depth,
     change_in_depth |-> node.change_in_depth, prefix |-> node.prefix,
     value |-> node.value, open_brackets |-> node.open_brackets]

FormattedNodes(nodes) == [i \in 1..Len(nodes) |-> Formatted(nodes[i])]

(* C9: cutting a Line built by append_token at any k and rebuilding the     *)
(* head from the line's predecessor and the tail from the head's last node  *)
(* (the predecessor if the head is empty) gives every token the depth,      *)
(* change_in_depth, prefix, value and stack of its node in the line; at     *)
(* k = len(nodes) the head also has the line's depth, change_in_depth,      *)
(* open_brackets, depth_split and first_comma.                              *)

C9_RebuildRoundTrip ==
    (rebuilt # None /\ line.nodes # <<>>) =>
        LET head == rebuilt[1].head
            tail == rebuilt[1].tail
        IN  /\ Len(head.nodes) = rebuilt[1].k
            /\ FormattedNodes(head.nodes \o tail.nodes)
                   = FormattedNodes(line.nodes)
            /\ rebuilt[1].k = Len(line.nodes) =>
                   /\ head.depth = line.depth
                   /\ head.change_in_depth = line.change_in_depth
                   /\ head.open_brackets = line.open_brackets
                   /\ head.depth_split = line.depth_split
                   /\ head.first_comma = line.first_comma

\* a line inside a bracket opened on an earlier line, cut in the middle
C9_Witness ==
    /\ rebuilt # None
    /\ line.previous_node # None
    /\ line.previous_node[1].open_brackets # <<>>
    /\ Len(line.nodes) >= 2
    /\ rebuilt[1].k = 1
    /\ rebuilt[1].tail.nodes # <<>>
    /\ rebuilt[1].tail.nodes[1].depth # 0

----------------------------------------------------------------------------
(* C10: right after a COMMENT token is appended to a Line, whatever the     *)
(* line's state before, depth_split is the comment's candidate split index: *)
(* the position the comment node occupies, plus one if a split falls after  *)
(* a COMMENT.                                                               *)

C10_CommentForcesSplit ==
    \A l \in Lines :
        (l.nodes # <<>> /\ Last(l.nodes).token.type = "COMMENT")
            => l.depth_split =
                   Some(Index(Len(l.nodes))
                        + (IF split_after("COMMENT") THEN 1 ELSE 0))

\* a comment appended to a dedenting line that had recorded a split already
C10_Witness ==
    /\ LastAppend
    /\ result.raised = None
    /\ result.token[1].type = "COMMENT"
    /\ Len(line.nodes) >= 3
    /\ line.change_in_depth < 0
    /\ line.nodes[2].depth < line.nodes[2].inherited_depth
    /\ line.depth_split = Some(Index(Len(line.nodes)))

----------------------------------------------------------------------------
\* the entries pushed on the bracket stack after the first node of a Line
\* (opening brackets, and top keywords acting as brackets) that are still on
\* the stack at its i-th node
OpenedSinceFirst(l, i) ==
    { k \in 1..Len(l.nodes[i].open_brackets) :
          \A j \in 1..Len(l.nodes[1].open_brackets) :
              l.nodes[1].open_brackets[j] # l.nodes[i].open_brackets[k] }

\* positions of the commas of a Line that are not inside a bracket opened
\* after the line's first node and still unclosed at the comma
UnnestedCommas(l) ==
    { i \in 1..Len(l.nodes) :
          /\ l.nodes[i].token.type = "COMMA"
          /\ OpenedSinceFirst(l, i) = {} }

(* C11 as claimed: first_comma of a Line is set if and only if the line     *)
(* contains a comma that is not inside a bracket opened after the line's    *)
(* first node and still unclosed at the comma.                              *)

C11_SetIffUnnestedComma ==
    \A l \in Lines : (l.first_comma # None) <=> (UnnestedCommas(l) # {})

(* C11 amended: first_comma of a Line is set if and only if the line        *)
(* contains a comma whose bracket-stack snapshot equals the snapshot of the *)
(* line's first node, which is also the stack recorded for the line; a      *)
(* comma met under any other stack never sets it.                           *)

C11_SetIffCommaOnStartingStack ==
    \A l \in Lines :
        /\ (l.first_comma # None) <=> (TopLevelCommas(l) # {})
        /\ l.nodes # <<>> => l.open_brackets = l.nodes[1].open_brackets

\* a comma inside a bracket opened on the line leaves first_comma unset; in
\* the tail rebuilt from that bracket on, the same comma is the first comma
C11_Witness ==
    /\ rebuilt # None
    /\ Len(line.nodes) >= 3
    /\ line.nodes[2].token.type = "BRACKET_OPEN"
    /\ line.nodes[3].token.type = "COMMA"
    /\ line.first_comma = None
    /\ rebuilt[1].k = 2
    /\ rebuilt[1].tail.first_comma = Some(Index(1) + 1)

----------------------------------------------------------------------------
(* Node.whitespace called directly on arbitrary arguments *)

WhitespaceCalls ==
    { [fn |-> "whitespace", token |-> Token(kind[1], kind[2], 20),
       is_first_on_line |-> first, depth |-> d, previous_token |-> previous] :
          kind \in AnyTokens, first \in BOOLEAN,
          d \in (-MaxInherited)..MaxInherited,
          previous \in {None} \cup
                       { Some(Token(before[1], before[2], 10)) :
                             before \in AnyTokens } }

InitWhitespace ==
    /\ line = Line(None, 0)
    /\ query = <<>>
    /\ cursor = 0
    /\ result = Outcome("init", None, None)
    /\ rebuilt = None
    /\ call \in { Some(c) : c \in WhitespaceCalls }
    /\ ret = None
    /\ heap = NoLists

Whitespace ==
    /\ call # None
    /\ call[1].fn = "whitespace"
    /\ ret = None
    /\ ret' = Some(whitespace(call[1].token, call[1].is_first_on_line,
                              call[1].depth, call[1].previous_token))
    /\ UNCHANGED <<line, query, cursor, result, rebuilt, call, heap>>

NextWhitespace == Whitespace

SpecWhitespace == InitWhitespace /\ [][NextWhitespace]_vars

----------------------------------------------------------------------------
(* The whitespace rule as an ordered table *)

\* the immediately preceding token of a call is of one of the given types
PrecededBy(c, types) ==
    c.previous_token # None /\ c.previous_token[1].type \in types

\* the words "as" and "over" in every casing
AsOrOver ==
    { a \o s : a \in {"a", "A"}, s \in {"s", "S"} }
    \cup { o \o v \o e \o r : o \in {"o", "O"}, v \in {"v", "V"},
                               e \in {"e", "E"}, r \in {"r", "R"} }

\* the preceding token is a NAME other than "as" and "over" in any casing
PrecededByFunctionName(c) ==
    /\ PrecededBy(c, {"NAME"})
    /\ c.previous_token[1].token \notin AsOrOver

\* whether the n-th rule of the table matches a call
RuleMatches(n, c) ==
    CASE n = 1 -> c.is_first_on_line
      [] n = 2 -> c.token.type \in {"BRACKET_CLOSE", "DOUBLE_COLON", "COMMA",
                                     "DOT", "NEWLINE"}
      [] n = 3 -> c.token.type \in {"NAME", "QUOTED_NAME"}
                  /\ PrecededBy(c, {"DOT"})
      [] n = 4 -> c.token.type = "BRACKET_OPEN" /\ PrecededByFunctionName(c)
      [] n = 5 -> c.token.type = "BRACKET_OPEN"
      [] n = 6 -> PrecededBy(c, {"BRACKET_OPEN", "DOUBLE_COLON"})
      [] n = 7 -> TRUE

\* the prefix the n-th rule gives
RulePrefix(n, c) ==
    CASE n = 1 -> Spaces(4 * c.depth)
      [] n \in {2, 3, 4, 6} -> ""
      [] n \in {5, 7} -> " "

FirstMatch(c) == Min({ n \in 1..7 : RuleMatches(n, c) })

WhitespaceReturned == call # None /\ call[1].fn = "whitespace" /\ ret # None

(* C12: for every token classification, first-on-line flag, depth and       *)
(* preceding token (or none), Node.whitespace returns the prefix of the     *)
(* first matching rule of the seven-rule table; in particular, not first on *)
(* the line, an opening bracket has an empty prefix exactly when the        *)
(* preceding token is a NAME other than `as` and `over` in any casing and a *)
(* single space otherwise, and a NAME or QUOTED_NAME preceded by `.` has an *)
(* empty prefix.                                                            *)

C12_WhitespaceTable ==
    WhitespaceReturned =>
        LET c == call[1]
        IN  /\ ret[1] = RulePrefix(FirstMatch(c), c)
            /\ (c.token.type = "BRACKET_OPEN" /\ ~c.is_first_on_line) =>
                   /\ (ret[1] = "") <=> PrecededByFunctionName(c)
                   /\ ret[1] \in {"", " "}
            /\ (/\ c.token.type \in {"NAME", "QUOTED_NAME"}
                 /\ ~c.is_first_on_line
                 /\ PrecededBy(c, {"DOT"})) => ret[1] = ""

\* an opening bracket after the name over, written in mixed case
C12_Witness ==
    /\ WhitespaceReturned
    /\ ~call[1].is_first_on_line
    /\ call[1].token.type = "BRACKET_OPEN"
    /\ call[1].previous_token = Some(Token("NAME", "oVeR", 10))
    /\ ret[1] = " "

----------------------------------------------------------------------------
(* The last append_newline call *)

NewlineAppended == result.op = "append_newline" /\ result.raised = None

\* the NEWLINE token one column past the end of a token
PlacedAfter(token) ==
    [type |-> "NEWLINE", token |-> "\n",
     spos |-> <<token.epos[1], token.epos[2] + 1>>,
     epos |-> <<token.epos[1], token.epos[2] + 2>>]

PlacedAtZero ==
    [type |-> "NEWLINE", token |-> "\n", spos |-> <<0, 0>>, epos |-> <<0, 1>>]

\* the newline node went through append_token: it is the line's last node,
\* at the depth and under the stack it inherits, with the prefix of a
\* NEWLINE, and the line's running depth change counts it
NewlineBookkept ==
    LET node == Last(line.nodes)
        before == PredecessorAtCall
        inherited ==
            IF before = None THEN 0
            ELSE before[1].depth + before[1].change_in_depth
    IN  /\ node.token = result.token[1]
        /\ node.value = "\n"
        /\ node.depth = inherited
        /\ node.change_in_depth = 0
        /\ node.open_brackets = InheritedBrackets
        /\ node.prefix = IF before = None \/ before[1].token.type = "NEWLINE"
                         THEN Spaces(4 * inherited) ELSE ""
        /\ line.change_in_depth = inherited - line.depth

(* C13 as claimed: append_newline appends, through append_token, a NEWLINE  *)
(* token placed right after the line's last token when the line has nodes   *)
(* and at position zero whenever the line has no nodes, with or without a   *)
(* predecessor node from a prior line.                                      *)

C13_EmptyLineNewlineAtZero ==
    NewlineAppended =>
        /\ result.token[1] =
               IF Len(line.nodes) >= 2
               THEN PlacedAfter(line.nodes[Len(line.nodes) - 1].token)
               ELSE PlacedAtZero
        /\ NewlineBookkept

(* C13 amended: append_newline appends, through append_token, a NEWLINE     *)
(* token placed right after the line's last token when the line has nodes,  *)
(* right after the predecessor node's token when the line has no nodes but  *)
(* was given a predecessor, and at position zero only when the line has     *)
(* neither nodes nor a predecessor.                                         *)

C13_NewlineAfterPreviousToken ==
    NewlineAppended =>
        /\ result.token[1] =
               IF Len(line.nodes) >= 2
               THEN PlacedAfter(line.nodes[Len(line.nodes) - 1].token)
               ELSE IF line.previous_node # None
               THEN PlacedAfter(line.previous_node[1].token)
               ELSE PlacedAtZero
        /\ NewlineBookkept

\* a blank line after a line inside a bracket: its newline follows the
\* newline of the line before and is indented
C13_Witness ==
    /\ NewlineAppended
    /\ Len(line.nodes) = 1
    /\ line.previous_node # None
    /\ line.nodes[1].token.spos[2] = line.previous_node[1].token.epos[2] + 1
    /\ line.nodes[1].prefix = "    "

----------------------------------------------------------------------------
(* C14: a Line that append_token has appended to has the depth and the      *)
(* bracket-stack snapshot of its first node, and its change_in_depth is the *)
(* depth the next token would inherit, last node's depth plus its           *)
(* change_in_depth, minus the line's depth.                                 *)

C14_LineDepthStats ==
    \A l \in Lines :
        l.nodes # <<>> =>
            /\ l.depth = l.nodes[1].depth
            /\ l.open_brackets = l.nodes[1].open_brackets
            /\ l.change_in_depth =
                   (Last(l.nodes).depth + Last(l.nodes).change_in_depth)
                   - l.depth

\* a line that starts inside a bracket opened on the line before and closes
\* it: it starts at depth 1, under that bracket, and ends one level lower
C14_Witness ==
    /\ LastAppend
    /\ result.raised = None
    /\ Len(line.nodes) >= 2
    /\ line.previous_node # None
    /\ line.depth = 1
    /\ Len(line.open_brackets) = 1
    /\ Last(line.nodes).token.type = "BRACKET_CLOSE"
    /\ line.change_in_depth = -1

----------------------------------------------------------------------------
(* Split markers of dedenting and indenting lines *)

\* the depth swing of a node: its dedent before plus its indent after
Swing(node) == node.depth - node.inherited_depth + node.change_in_depth

\* the index append_token considers for a split at the i-th node of a Line
Candidate(l, i) ==
    Index(i) + (IF split_after(l.nodes[i].token.type) THEN 1 ELSE 0)

Dedents(l) == { i \in 1..Len(l.nodes) : Swing(l.nodes[i]) < 0 }

Comments(l) == { i \in 1..Len(l.nodes) : l.nodes[i].token.type = "COMMENT" }

Max(S) == CHOOSE i \in S : \A j \in S : j <= i

(* C15: a Line whose cumulative change_in_depth ends negative has a node of *)
(* negative depth swing and, with no COMMENT after the last such node, its  *)
(* depth_split is the candidate split index of that last node; a dedenting  *)
(* token at position 0, whose candidate index is 0, does not set            *)
(* depth_split.                                                             *)

C15_DedentSplitsLate ==
    \A l \in Lines :
        /\ l.change_in_depth < 0 =>
               /\ Dedents(l) # {}
               /\ (\A c \in Comments(l) : c < Max(Dedents(l))) =>
                      l.depth_split = Some(Candidate(l, Max(Dedents(l))))
        /\ (Len(l.nodes) = 1 /\ Dedents(l) = {1} /\ Candidate(l, 1) = 0) =>
               l.depth_split = None

\* two dedenting nodes after a recorded split: the second one moves it
C15_Witness ==
    /\ LastAppend
    /\ result.raised = None
    /\ line.change_in_depth < 0
    /\ Cardinality(Dedents(line)) >= 2
    /\ Max(Dedents(line)) = Len(line.nodes)
    /\ Min(Dedents(line)) > 1
    /\ line.depth_split = Some(Index(Len(line.nodes)))

----------------------------------------------------------------------------
\* the nodes of a Line at which the dedenting rule fires: the line's
\* cumulative change and the node's swing are negative, the candidate positive
DedentRuleFires(l) ==
    { i \in Dedents(l) :
          /\ l.nodes[i].depth + l.nodes[i].change_in_depth - l.depth < 0
          /\ Candidate(l, i) > 0 }

Indents(l) == { i \in 1..Len(l.nodes) : l.nodes[i].change_in_depth > 0 }

(* C16: at every point of the construction of a Line that holds no COMMENT  *)
(* and on which the dedenting rule has not fired, depth_split is unset as   *)
(* long as no node with positive change_in_depth has been appended and is   *)
(* otherwise the candidate split index of the first such node, whatever     *)
(* nodes, indenting or not, were appended after it.                         *)

C16_IndentSplitsEarly ==
    \A l \in Lines :
        (Comments(l) = {} /\ DedentRuleFires(l) = {}) =>
            l.depth_split =
                IF Indents(l) = {} THEN None
                ELSE Some(Candidate(l, Min(Indents(l))))

\* a name followed by two opening brackets: the split stays after the first
C16_Witness ==
    /\ LastAppend
    /\ result.raised = None
    /\ Comments(line) = {}
    /\ DedentRuleFires(line) = {}
    /\ Cardinality(Indents(line)) >= 2
    /\ Min(Indents(line)) = 2
    /\ Max(Indents(line)) = Len(line.nodes)
    /\ line.depth_split = Some(Index(2) + 1)

----------------------------------------------------------------------------
(* Snapshots and the list objects behind them *)

\* the list object id holds what the field that refers to it was assigned;
\* 0 is a Line's own list, which is empty
Holds(id, open_brackets) ==
    IF id = 0 THEN open_brackets = <<>> ELSE heap.cells[id] = open_brackets

\* the nodes of the line under construction are the last nodes of the chain,
\* with the fields they were created with
LineNodesKept ==
    /\ Len(line.nodes) <= Len(query)
    /\ \A i \in 1..Len(line.nodes) :
           line.nodes[i] = query[Len(query) - Len(line.nodes) + i]
    /\ (line.previous_node # None) =>
           /\ Len(line.nodes) < Len(query)
           /\ line.previous_node[1] = query[Len(query) - Len(line.nodes)]

(* C17: whatever Nodes were created and Lines built or rebuilt since, the   *)
(* list behind the open_brackets of every Node of the chain, of the Line    *)
(* and of every rebuilt Node and Line still holds what it held when the     *)
(* field was assigned, and the Nodes of the Line are the Nodes of the chain *)
(* with their depth, change_in_depth, prefix and value as created.          *)

C17_SnapshotsOwned ==
    /\ Len(heap.node) = Len(query)
    /\ \A i \in 1..Len(query) : Holds(heap.node[i], query[i].open_brackets)
    /\ Holds(heap.line, line.open_brackets)
    /\ LineNodesKept
    /\ (rebuilt # None) =>
           /\ heap.rebuilt # None
           /\ LET nodes == rebuilt[1].head.nodes \o rebuilt[1].tail.nodes
                   lists == heap.rebuilt[1]
               IN  /\ Len(lists.nodes) = Len(nodes)
                   /\ \A i \in 1..Len(nodes) :
                          Holds(lists.nodes[i], nodes[i].open_brackets)
                   /\ Holds(lists.head, rebuilt[1].head.open_brackets)
                   /\ Holds(lists.tail, rebuilt[1].tail.open_brackets)

\* a line rebuilt in two parts after a keyword replaced a keyword on the
\* stack: one list per node of the chain and per rebuilt node, the first
\* node's, which is also the line's, still holding the first keyword
C17_Witness ==
    /\ rebuilt # None
    /\ heap.rebuilt # None
    /\ Len(query) >= 3
    /\ Cardinality({ heap.node[i] : i \in 1..Len(query) }
                    \cup { heap.rebuilt[1].nodes[i] :
                               i \in 1..Len(heap.rebuilt[1].nodes) })
           = 2 * Len(query)
    /\ heap.line = heap.node[1]
    /\ heap.cells[heap.node[1]] = <<query[1].token>>
    /\ query[1].token.type = "TOP_KEYWORD"
    /\ query[2].token.type = "TOP_KEYWORD"
    /\ heap.rebuilt[1].tail # 0
    /\ heap.rebuilt[1].head # 0

----------------------------------------------------------------------------
(* Shape of the bracket stacks of a query *)

NoAdjacentKeywords(stack) ==
    \A k \in 1..(Len(stack) - 1) :
        ~(stack[k].type = "TOP_KEYWORD" /\ stack[k + 1].type = "TOP_KEYWORD")

OnlyOpeners(stack) ==
    \A k \in 1..Len(stack) : stack[k].type \in {"TOP_KEYWORD", "BRACKET_OPEN"}

(* C18: in a query processed from an empty stack no bracket stack has two   *)
(* adjacent TOP_KEYWORD entries; so a BRACKET_CLOSE that returns has popped *)
(* one or two entries, it raises the unmatched-closer error exactly when    *)
(* there is no entry to compare it against, and otherwise that entry, the   *)
(* top or the one below a TOP_KEYWORD top, is a BRACKET_OPEN and the        *)
(* mismatched-pair error is raised exactly when the characters differ.      *)

C18_KeywordsNeverAdjacent ==
    /\ \A i \in 1..Len(query) :
           /\ NoAdjacentKeywords(query[i].open_brackets)
           /\ OnlyOpeners(query[i].open_brackets)
    /\ ClosedBracket =>
           /\ (result.raised # None /\ result.raised[1].kind = "ValueError")
                  <=> ~HasMatchingEntry(InheritedBrackets)
           /\ HasMatchingEntry(InheritedBrackets) =>
                  /\ MatchingEntry(InheritedBrackets).type = "BRACKET_OPEN"
                  /\ (result.raised # None) <=>
                         (CloserOf(MatchingEntry(InheritedBrackets).token)
                              # result.token[1].token)
           /\ (result.raised = None) =>
                  Len(InheritedBrackets) - Len(Last(query).open_brackets)
                      = IF TopIsKeyword(InheritedBrackets) THEN 2 ELSE 1

\* a closer met after a keyword that replaced a keyword inside a bracket:
\* it pops that keyword and the bracket and empties the stack
C18_Witness ==
    /\ ClosedBracket
    /\ result.raised = None
    /\ Len(query) = 4
    /\ query[2].token.type = "TOP_KEYWORD"
    /\ query[3].token.type = "TOP_KEYWORD"
    /\ Len(InheritedBrackets) = 2
    /\ Last(query).open_brackets = <<>>

----------------------------------------------------------------------------
(* Depth, stack length and open statements *)

\* how many of the first i tokens of the query are of a type
CountUpTo(i, type) ==
    Cardinality({ n \in 1..i : query[n].token.type = type })

\* the statements started and not ended within the first i tokens
OpenStatements(i) ==
    CountUpTo(i, "STATEMENT_START") - CountUpTo(i, "STATEMENT_END")

(* C19: in a query processed from its start without error, the depth the    *)
(* token after a node inherits, the node's depth plus its change_in_depth,  *)
(* is the length of the node's bracket stack plus the number of             *)
(* STATEMENT_START tokens minus the number of STATEMENT_END tokens up to    *)
(* and including the node; and no node has a negative depth as long as the  *)
(* STATEMENT_END tokens never outnumber the STATEMENT_START tokens before   *)
(* them.                                                                    *)

C19_DepthIsStackPlusStatements ==
    \A i \in 1..Len(query) :
        /\ query[i].depth + query[i].change_in_depth
               = Len(query[i].open_brackets) + OpenStatements(i)
        /\ (\A j \in 1..i : OpenStatements(j) >= 0) => query[i].depth >= 0

\* a statement started inside a bracket or under a keyword and ended on a
\* later line
C19_Witness ==
    /\ Len(query) >= 4
    /\ line.previous_node # None
    /\ Last(query).token.type = "STATEMENT_END"
    /\ OpenStatements(Len(query)) = 0
    /\ Len(Last(query).open_brackets) = 1
    /\ Last(query).depth = 1

----------------------------------------------------------------------------
(* C20: an append_token call that raises, with the unmatched-closer or the  *)
(* mismatched-pair error, leaves the Line as it was before the call, its    *)
(* nodes, depth, change_in_depth, open_brackets, depth_split and            *)
(* first_comma, and leaves every list of bracket-stack entries, that of     *)
(* the predecessor node among them, with the content it had.                *)

C20_FailedAppendChangesNothing ==
    [][(result'.op = "append_token" /\ result'.raised # None) =>
           /\ line' = line
           /\ query' = query
           /\ heap' = heap]_vars

\* a closer of the wrong kind refused by a line that has recorded a split
\* and a first comma, under a keyword inside the bracket
C20_Witness ==
    /\ LastAppend
    /\ result.raised # None
    /\ result.raised[1].kind = "AssertionError"
    /\ Len(line.nodes) = 3
    /\ line.depth_split # None
    /\ line.first_comma # None
    /\ Len(InheritedBrackets) = 2
    /\ TopIsKeyword(InheritedBrackets)
    /\ Holds(PredecessorList, InheritedBrackets)

====
